---- MODULE Spec2Model ----
(***************************************************************************)
(* Model of src/app.py: the isotope catalog kept in st.session_state, its  *)
(* JSON store (isotopes.json), and the decay / unit-conversion functions.  *)
(*                                                                         *)
(* Numbers.  The program's numbers are Python floats.  A number is         *)
(* modelled exactly, as the record [n, d, e, ln2] standing for             *)
(*        (n / d) * 10^e * ln(2)^ln2        with d > 0,                    *)
(* so that the literals of the source (0.02298, 4.95105e-11), the          *)
(* conversion factors (1 / 365.25) and ln(2) / half-life are all values    *)
(* of one kind.  Floating-point rounding is not modelled.                  *)
(*                                                                         *)
(* Strings.  Names with accents are written without them ("Cesio-137"      *)
(* for "Césio-137").                                                       *)
(***************************************************************************)
EXTENDS Integers, Sequences, FiniteSets, TLC

VARIABLES
    isotopes,   \* st.session_state.isotopes: the Python value load returned, then mutated
    file,       \* the store isotopes.json
    last,       \* the handler that ran last, with its inputs and the outcome of its save
    shown,      \* the messages that handler emitted (st.error / st.success)
    nops,       \* number of handlers run so far
    call,       \* the last call of a function of the decay engine, with its arguments
    result      \* what that call returned

vars == <<isotopes, file, last, shown, nops, call, result>>

(***************************************************************************)
(* Bounds of the model.                                                    *)
(***************************************************************************)
MaxOps == 3          \* handlers run in one behaviour
MaxSteps == 11       \* step counts: 1 .. MaxSteps (the slider starts at 10)
MaxValue == 3        \* magnitudes of the numeric inputs of the engine

(***************************************************************************)
(* Exact numbers.                                                          *)
(***************************************************************************)
Num(n, d, e, k) == [n |-> n, d |-> d, e |-> e, ln2 |-> k]
Dec(m, e) == Num(m, 1, e, 0)          \* the decimal literal m * 10^e
Int2Num(i) == Dec(i, 0)
Zero == Dec(0, 0)
Mul(a, b) == Num(a.n * b.n, a.d * b.d, a.e + b.e, a.ln2 + b.ln2)
\* a / b for b # 0; the sign is kept in the numerator
Div(a, b) ==
    IF b.n > 0 THEN Num(a.n * b.d, a.d * b.n, a.e - b.e, a.ln2 - b.ln2)
               ELSE Num(-(a.n * b.d), a.d * (-b.n), a.e - b.e, a.ln2 - b.ln2)
Neg(a) == Num(-a.n, a.d, a.e, a.ln2)
IsPos(a) == a.n > 0
IsZero(a) == a.n = 0
RECURSIVE GCD(_, _)
GCD(x, y) == IF y = 0 THEN x ELSE GCD(y, x % y)
\* a <= b for two numbers with the same power of ten and of ln(2)
Leq(a, b) ==
    LET g == GCD(a.d, b.d)
    IN  a.n * (b.d \div g) <= b.n * (a.d \div g)
Less(a, b) == Leq(a, b) /\ ~Leq(b, a)
Ln2 == Num(1, 1, 0, 1)                \* np.log(2)

(***************************************************************************)
(* Constants of the program.                                               *)
(***************************************************************************)
Rec(lam, hl, unit, w) ==
    [lambda |-> lam, half_life |-> hl, unit |-> unit, atomic_weight |-> w]

\* A Python dict is a function from its keys; a Python value read from JSON is
\* tagged with its type, a dict carrying its items.
Dict(f) == [type |-> "dict", items |-> f]
NoItems == [k \in {} |-> Zero]
EmptyDict == Dict(NoItems)
JsonList == [type |-> "list", items |-> NoItems]     \* the JSON document []
IsDict(v) == v.type = "dict"
Keys(v) == DOMAIN v.items
DictLen(v) == Cardinality(Keys(v))     \* len(d)

DEFAULT_ISOTOPES ==
    Dict([name \in {"Cesio-137", "Bario-137m", "Carbono-14", "Torio-232",
                    "Cobalto-60", "Iodo-131", "Uranio-238"} |->
        CASE name = "Cesio-137"  -> Rec(Dec(2298, -5), Dec(3017, -2), "anos", Dec(136907, -3))
          [] name = "Bario-137m" -> Rec(Dec(2366, -1), Dec(255, -2), "minutos", Dec(1369, -1))
          [] name = "Carbono-14" -> Rec(Dec(120968, -9), Dec(5730, 0), "anos", Dec(14003, -3))
          [] name = "Torio-232"  -> Rec(Dec(495105, -16), Dec(14, 9), "anos", Dec(232038, -3))
          [] name = "Cobalto-60" -> Rec(Dec(1315, -4), Dec(527, -2), "anos", Dec(59933, -3))
          [] name = "Iodo-131"   -> Rec(Dec(3155, -2), Dec(802, -2), "dias", Dec(130906, -3))
          [] name = "Uranio-238" -> Rec(Dec(1551, -13), Dec(4468, 6), "anos", Dec(238050, -3))])

\* The keys of CONVERSIONS_TO_YEARS.
Units == {"segundos", "minutos", "horas", "dias", "anos"}

CONVERSIONS_TO_YEARS ==
    [unit \in Units |->
        CASE unit = "segundos" -> Num(1, 31557600, 0, 0)   \* 1 / (365.25 * 24 * 60 * 60)
          [] unit = "minutos"  -> Num(1, 525960, 0, 0)     \* 1 / (365.25 * 24 * 60)
          [] unit = "horas"    -> Num(1, 8766, 0, 0)       \* 1 / (365.25 * 24)
          [] unit = "dias"     -> Num(4, 1461, 0, 0)       \* 1 / 365.25
          [] unit = "anos"     -> Num(1, 1, 0, 0)]         \* 1.0

\* dict.get(key, default)
DictGet(d, key, default) == IF key \in DOMAIN d THEN d[key] ELSE default

(***************************************************************************)
(* Persistence.  The store is absent, holds text json.load rejects (or     *)
(* cannot be read), or holds a JSON document.                              *)
(***************************************************************************)
NoFile == [kind |-> "absent", value |-> EmptyDict]
BadFile == [kind |-> "invalid", value |-> EmptyDict]
JsonFile(v) == [kind |-> "json", value |-> v]

\* DEFAULT_ISOTOPES.copy(): a new dict with the same items
DictCopy(v) == Dict([k \in Keys(v) |-> v.items[k]])

load_isotopes_from_file(f) ==
    CASE f.kind = "absent"  -> DictCopy(DEFAULT_ISOTOPES)   \* os.path.exists is False
      [] f.kind = "invalid" -> DictCopy(DEFAULT_ISOTOPES)   \* json.load or open raises
      [] f.kind = "json"    -> f.value                      \* whatever document it holds

\* save_isotopes_to_file without its try / except
save_unguarded(data, f, io) ==
    CASE io = "ok"          -> [file |-> JsonFile(data), error |-> FALSE, raised |-> FALSE]
      [] io = "open_fails"  -> [file |-> f, error |-> FALSE, raised |-> TRUE]
      [] io = "write_fails" -> [file |-> BadFile, error |-> FALSE, raised |-> TRUE]

\* io is what the file system does: "ok", "open_fails" (open raises and the
\* file is left as it was) or "write_fails" (open has truncated the file and
\* json.dump raises part-way: what is left is no JSON document).
\* Returns the file, whether st.error was called, whether an exception leaves.
save_isotopes_to_file(data, f, io) ==
    CASE io = "ok"          -> [file |-> JsonFile(data), error |-> FALSE, raised |-> FALSE]
      [] io = "open_fails"  -> [file |-> f, error |-> TRUE, raised |-> FALSE]
      [] io = "write_fails" -> [file |-> BadFile, error |-> TRUE, raised |-> FALSE]

IoOutcomes == {"ok", "open_fails", "write_fails"}

(***************************************************************************)
(* Calculations.                                                           *)
(***************************************************************************)
convert_time_to_years(value, unit) ==
    Mul(value, DictGet(CONVERSIONS_TO_YEARS, unit, Int2Num(1)))

\* The value coef * exp(arg), kept as the pair: exp of a rational is no rational.
Exp(coef, arg) == [coef |-> coef, arg |-> arg]
\* x <= y for x = a * exp(p), y = b * exp(q), decided where the signs of a, b or
\* a = b decide it, exp being positive and increasing.
LeqExp(x, y) ==
    CASE x.coef.n <= 0 /\ y.coef.n >= 0 -> TRUE
      [] x.coef.n > 0 /\ y.coef.n <= 0  -> FALSE
      [] x.coef = y.coef /\ x.coef.n > 0 -> Leq(x.arg, y.arg)
      [] x.coef = y.coef /\ x.coef.n < 0 -> Leq(y.arg, x.arg)

\* the decay law with the sign of the exponent lost
decay_no_minus(N0, lam, t_years) == Exp(N0, Mul(lam, t_years))

\* N0 * np.exp(-lam * t_years)
calculate_simple_decay(N0, lam, t_years) == Exp(N0, Mul(Neg(lam), t_years))

\* np.linspace(0, stop, num): num - 1 intervals, the last point set to stop
linspace0(stop, num) ==
    LET step == IF num > 1 THEN Div(stop, Int2Num(num - 1)) ELSE Zero
    IN  [i \in 1 .. num |->
            IF i = num /\ num > 1 THEN stop ELSE Mul(Int2Num(i - 1), step)]

\* lines 238-245 of run_simple_mode, with N0 entered as a number of nuclei
max_t(t_val) == IF IsPos(t_val) THEN t_val ELSE Int2Num(100)
\* steps points instead of steps + 1
t_plot_steps(t_val, steps) == linspace0(max_t(t_val), steps)
t_plot(t_val, steps) == linspace0(max_t(t_val), steps + 1)
t_years_vec(t_val, t_unit, steps) ==
    LET tp == t_plot(t_val, steps)
    IN  [i \in DOMAIN tp |-> convert_time_to_years(tp[i], t_unit)]
Nt_vec(N0, lam, t_val, t_unit, steps) ==
    LET ty == t_years_vec(t_val, t_unit, steps)
    IN  [i \in DOMAIN ty |-> calculate_simple_decay(N0, lam, ty[i])]

(***************************************************************************)
(* The handlers of render_manager.  Each returns the catalog, the file and *)
(* the messages it leaves; "raised" says an exception left the handler.    *)
(***************************************************************************)
\* d[key] = value
DictSet(v, key, value) ==
    Dict([k \in Keys(v) \cup {key} |-> IF k = key THEN value ELSE v.items[k]])
\* del d[key]
DictDel(v, key) == Dict([k \in Keys(v) \ {key} |-> v.items[k]])

MsgAdded == "Adicionado!"
MsgRemoved == "Removido!"
MsgMinimum == "Minimo 1 isotopo necessario."
MsgSaveError == "Erro ao salvar"
None == "<None>"          \* what a selectbox with no options returns

Outcome(cat, f, msgs) == [isotopes |-> cat, file |-> f, shown |-> msgs]
SaveMsgs(sv) == IF sv.error THEN {MsgSaveError} ELSE {}

\* the form handler saving before it stores the entry
submit_add_save_first(cat, f, name, mass, hl, unit, io) ==
    IF name = "" THEN Outcome(cat, f, {})
    ELSE
        LET hl_years == convert_time_to_years(hl, unit)
            lam == IF IsPos(hl_years) THEN Div(Ln2, hl_years) ELSE Zero
            sv == save_isotopes_to_file(cat, f, io)
            new == DictSet(cat, name, Rec(lam, hl, unit, mass))
        IN  Outcome(new, sv.file, SaveMsgs(sv) \cup {MsgAdded})

\* lines 417-426: the form "add" submitted with these field values
submit_add(cat, f, name, mass, hl, unit, io) ==
    IF name = "" THEN Outcome(cat, f, {})
    ELSE
        LET hl_years == convert_time_to_years(hl, unit)
            lam == IF IsPos(hl_years) THEN Div(Ln2, hl_years) ELSE Zero
            new == DictSet(cat, name, Rec(lam, hl, unit, mass))
            sv == save_isotopes_to_file(new, f, io)
        IN  IF sv.raised THEN Outcome(new, sv.file, {"exception"})
            ELSE Outcome(new, sv.file, SaveMsgs(sv) \cup {MsgAdded})

\* the guard of "Remover" off by one
click_remover_off_by_one(cat, f, to_del, io) ==
    IF DictLen(cat) >= 1
    THEN LET new == DictDel(cat, to_del)
             sv == save_isotopes_to_file(new, f, io)
         IN  Outcome(new, sv.file, SaveMsgs(sv) \cup {MsgRemoved})
    ELSE Outcome(cat, f, {MsgMinimum})

\* lines 431-438: the button "Remover" clicked with to_del selected
click_remover(cat, f, to_del, io) ==
    IF DictLen(cat) > 1
    THEN LET new == DictDel(cat, to_del)
             sv == save_isotopes_to_file(new, f, io)
         IN  IF sv.raised THEN Outcome(new, sv.file, {"exception"})
             ELSE Outcome(new, sv.file, SaveMsgs(sv) \cup {MsgRemoved})
    ELSE Outcome(cat, f, {MsgMinimum})

\* "Restaurar Padroes" merging the defaults into the catalog (dict.update)
click_restaurar_update(cat, f, io) ==
    LET new == Dict([k \in Keys(cat) \cup Keys(DEFAULT_ISOTOPES) |->
                        IF k \in Keys(DEFAULT_ISOTOPES) THEN DEFAULT_ISOTOPES.items[k]
                        ELSE cat.items[k]])
        sv == save_isotopes_to_file(new, f, io)
    IN  Outcome(new, sv.file, SaveMsgs(sv))

\* lines 440-443: the button "Restaurar Padroes" clicked
click_restaurar(cat, f, io) ==
    LET new == DictCopy(DEFAULT_ISOTOPES)
        sv == save_isotopes_to_file(new, f, io)
    IN  IF sv.raised THEN Outcome(new, sv.file, {"exception"})
        ELSE Outcome(new, sv.file, SaveMsgs(sv))

(***************************************************************************)
(* The catalog as a state machine: one session of the application and its  *)
(* store.                                                                  *)
(***************************************************************************)
\* Values of the form's fields.  Both number inputs have min_value 1.0.
FormNames == {"", "X", "Cesio-137"}
FormMasses == {Int2Num(1)}
FormHalfLives == {Int2Num(1), Int2Num(2)}
FormUnits == {"anos", "dias"}
\* Half-lives given to the handler as arguments, whatever the widget allows.
ArgHalfLives == {Int2Num(-1), Int2Num(0)} \cup FormHalfLives

CesiumOnly ==
    Dict([k \in {"Cesio-137"} |-> DEFAULT_ISOTOPES.items[k]])
CesiumAndIodine ==
    Dict([k \in {"Cesio-137", "Iodo-131"} |-> DEFAULT_ISOTOPES.items[k]])

\* What isotopes.json may hold when the session starts.
InitialStores ==
    {NoFile, BadFile, JsonFile(DictCopy(DEFAULT_ISOTOPES)), JsonFile(CesiumOnly),
     JsonFile(CesiumAndIodine), JsonFile(EmptyDict), JsonFile(JsonList)}

NoCall == [fn |-> "none"]
Returned(v) == [done |-> TRUE, raised |-> FALSE, value |-> v]     \* the call returned v
Pending == [done |-> FALSE, raised |-> FALSE, value |-> Zero]
Handler(op, name, hl, io) == [op |-> op, name |-> name, hl |-> hl, io |-> io]

Init ==
    /\ file \in InitialStores
    /\ isotopes = load_isotopes_from_file(file)      \* lines 119-120
    /\ last = Handler("load", "", Zero, "none")
    /\ shown = {}
    /\ nops = 0
    /\ call = NoCall
    /\ result = Pending

Apply(out, h) ==
    /\ isotopes' = out.isotopes
    /\ file' = out.file
    /\ shown' = out.shown
    /\ last' = h
    /\ nops' = nops + 1
    /\ UNCHANGED <<call, result>>

\* A new session (the page is opened again): session_state is empty and
\* the catalog is loaded from the store.
NewSession ==
    /\ nops < MaxOps
    /\ Apply(Outcome(load_isotopes_from_file(file), file, {}),
             Handler("load", "", Zero, "none"))

\* st.session_state.isotopes[name] = ... raises on a value that is no dict.
SubmitAdd(halfLives) ==
    /\ nops < MaxOps
    /\ IsDict(isotopes)
    /\ \E name \in FormNames, mass \in FormMasses, hl \in halfLives,
          unit \in FormUnits, io \in IoOutcomes :
          Apply(submit_add(isotopes, file, name, mass, hl, unit, io),
                Handler("add", name, hl, io))

\* list(st.session_state.isotopes.keys()) at line 430 raises on a value that
\* is no dict, before either button is looked at.
ClickRemover ==
    /\ nops < MaxOps
    /\ IsDict(isotopes)
    /\ \E to_del \in (IF Keys(isotopes) = {} THEN {None} ELSE Keys(isotopes)),
          io \in IoOutcomes :
          Apply(click_remover(isotopes, file, to_del, io),
                Handler("remove", to_del, Zero, io))

ClickRestaurar ==
    /\ nops < MaxOps
    /\ IsDict(isotopes)
    /\ \E io \in IoOutcomes :
          Apply(click_restaurar(isotopes, file, io), Handler("reset", "", Zero, io))

Next ==
    \/ NewSession
    \/ SubmitAdd(FormHalfLives)
    \/ ClickRemover
    \/ ClickRestaurar

Spec == Init /\ [][Next]_vars

\* The same machine with the half-life an argument of add, not a field of the form.
NextArgs ==
    \/ NewSession
    \/ SubmitAdd(ArgHalfLives)
    \/ ClickRemover
    \/ ClickRestaurar

SpecArgs == Init /\ [][NextArgs]_vars

(***************************************************************************)
(* The decay engine: its functions applied to inputs drawn from small sets.*)
(***************************************************************************)
EngineValues == {Int2Num(i) : i \in -1 .. MaxValue}
EngineUnits == Units \cup {"semanas", "years"}
StepCounts == 1 .. MaxSteps

ConvertCalls ==
    {[fn |-> "convert_time_to_years", value |-> value, unit |-> unit] :
        value \in EngineValues, unit \in EngineUnits}
\* calculate_simple_decay on the array [t1, t2]
DecayCalls ==
    {[fn |-> "calculate_simple_decay", N0 |-> N0, lam |-> lam, t_years |-> <<t1, t2>>] :
        N0 \in EngineValues, lam \in EngineValues, t1 \in EngineValues,
        t2 \in EngineValues}
SimpleModeCalls ==
    {[fn |-> "run_simple_mode", t_val |-> t_val, t_unit |-> t_unit, N0 |-> N0,
      lam |-> lam, steps |-> steps] :
        t_val \in EngineValues, t_unit \in Units, N0 \in EngineValues,
        lam \in EngineValues, steps \in StepCounts}

\* One call of the engine with its inputs chosen; the action for it returns.
InitEngine ==
    /\ file = NoFile
    /\ isotopes = load_isotopes_from_file(file)
    /\ last = Handler("load", "", Zero, "none")
    /\ shown = {}
    /\ nops = 0
    /\ call \in ConvertCalls \cup DecayCalls \cup SimpleModeCalls
    /\ result = Pending

CallConvert ==
    /\ ~result.done
    /\ call.fn = "convert_time_to_years"
    /\ result' = Returned(convert_time_to_years(call.value, call.unit))
    /\ UNCHANGED <<isotopes, file, last, shown, nops, call>>

CallDecay ==
    /\ ~result.done
    /\ call.fn = "calculate_simple_decay"
    /\ result' = Returned([i \in DOMAIN call.t_years |->
                    calculate_simple_decay(call.N0, call.lam, call.t_years[i])])
    /\ UNCHANGED <<isotopes, file, last, shown, nops, call>>

\* run_simple_mode up to the series it hands to the chart and the table
RunSimpleMode ==
    /\ ~result.done
    /\ call.fn = "run_simple_mode"
    /\ result' = Returned(
          [t_plot |-> t_plot(call.t_val, call.steps),
           y_vals |-> Nt_vec(call.N0, call.lam, call.t_val, call.t_unit, call.steps),
           Nt_final |-> calculate_simple_decay(call.N0, call.lam,
                           convert_time_to_years(call.t_val, call.t_unit))])
    /\ UNCHANGED <<isotopes, file, last, shown, nops, call>>

NextEngine ==
    \/ CallConvert
    \/ CallDecay
    \/ RunSimpleMode

SpecEngine == InitEngine /\ [][NextEngine]_vars

(***************************************************************************)
(* The claims.                                                             *)
(***************************************************************************)
Mutating == {"add", "remove", "reset"}
RecordFields == {"lambda", "half_life", "unit", "atomic_weight"}
\* the step is a handler that changes the catalog and so saves it
SavingStep ==
    \/ last'.op = "add" /\ last'.name # ""
    \/ last'.op = "remove" /\ DictLen(isotopes) > 1
    \/ last'.op = "reset"
OthersKept(keys) == \A k \in keys : isotopes'.items[k] = isotopes.items[k]

\* C1: the catalog holds at least one entry in every reachable state, from
\* the load on and after any sequence of add, remove and reset.
C1_CatalogNeverEmpty == IsDict(isotopes) /\ DictLen(isotopes) >= 1

\* C2: "Remover" on a catalog of exactly one entry shows the minimum-one error
\* and changes neither the catalog nor the store; on a larger catalog it
\* deletes the selected entry and no other.
C2_Remove ==
    [][last'.op = "remove" =>
          IF DictLen(isotopes) > 1
          THEN /\ last'.name \in Keys(isotopes)
               /\ Keys(isotopes') = Keys(isotopes) \ {last'.name}
               /\ OthersKept(Keys(isotopes'))
               /\ MsgRemoved \in shown'
          ELSE /\ isotopes' = isotopes
               /\ file' = file
               /\ shown' = {MsgMinimum}]_vars

C2_Witness ==
    /\ last.op = "remove"
    /\ shown = {MsgMinimum}
    /\ DictLen(isotopes) = 1

C4_UnknownUnitFails ==
    (result.done /\ call.fn = "convert_time_to_years" /\ call.unit \notin Units)
        => result.raised

\* C5: after every handler that changed the catalog and whose save succeeded,
\* the store holds the catalog as it is in memory after the change.
C5_SavedAfterMutation ==
    (/\ last.op \in Mutating
     /\ last.io = "ok"
     /\ ~(last.op = "add" /\ last.name = "")
     /\ MsgMinimum \notin shown)
        => file = JsonFile(isotopes)

C5_Witness ==
    /\ last.op = "add"
    /\ last.io = "ok"
    /\ last.name = "X"
    /\ "X" \in Keys(isotopes)
    /\ file = JsonFile(isotopes)

C7_LoadReturnsCatalog ==
    last.op = "load" =>
        IF file.kind \in {"absent", "invalid"}
        THEN isotopes = DEFAULT_ISOTOPES
        ELSE /\ IsDict(isotopes)
             /\ \A k \in Keys(isotopes) : DOMAIN isotopes.items[k] = RecordFields

\* C8: after "Restaurar Padroes" the catalog is exactly the seven default
\* isotopes with their values, whatever was loaded, added or removed before.
C8_ResetRestoresDefaults ==
    last.op = "reset" =>
        /\ isotopes = DEFAULT_ISOTOPES
        /\ DictLen(isotopes) = 7

\* a reset whose save could not open the store, which still holds a catalog
\* with an entry added earlier
C8_Witness ==
    /\ last.op = "reset"
    /\ file.kind = "json"
    /\ "X" \in Keys(file.value)
    /\ isotopes = DEFAULT_ISOTOPES

\* C9: the series has steps + 1 points, the first at time 0 and the last at
\* the requested span, or at 100 when that span is <= 0.
C9_SeriesShape ==
    (result.done /\ call.fn = "run_simple_mode") =>
        /\ Len(result.value.t_plot) = call.steps + 1
        /\ Len(result.value.y_vals) = call.steps + 1
        /\ IsZero(result.value.t_plot[1])
        /\ result.value.t_plot[call.steps + 1] =
              (IF call.t_val.n > 0 THEN call.t_val ELSE Int2Num(100))

C9_Witness ==
    /\ result.done
    /\ call.fn = "run_simple_mode"
    /\ call.t_val.n <= 0
    /\ call.steps = 10
    /\ Len(result.value.t_plot) = 11
    /\ result.value.t_plot[11] = Int2Num(100)

\* C10: for lambda >= 0, N0 >= 0 and t2 > t1 >= 0 the decay at t2 is at most
\* the decay at t1.
C10_DecayMonotone ==
    (/\ result.done
     /\ call.fn = "calculate_simple_decay"
     /\ call.lam.n >= 0
     /\ call.N0.n >= 0
     /\ call.t_years[1].n >= 0
     /\ Less(call.t_years[1], call.t_years[2]))
        => LeqExp(result.value[2], result.value[1])

\* a strict decrease: lambda > 0, N0 > 0, t2 > t1 >= 0
C10_Witness ==
    /\ result.done
    /\ call.fn = "calculate_simple_decay"
    /\ call.lam.n > 0
    /\ call.N0.n > 0
    /\ call.t_years[1].n >= 0
    /\ Less(call.t_years[1], call.t_years[2])
    /\ LeqExp(result.value[2], result.value[1])
    /\ ~LeqExp(result.value[1], result.value[2])

====
